---- MODULE Spec2Model ----
(***************************************************************************)
(* A model of the u-root wifi tooling:                                     *)
(*   - package wifi (src/unnamed/part_000): WifiWorker.Connect,            *)
(*     generateConfig and parseIwlistOut;                                  *)
(*   - cmds/wifi (src/cmds/wifi/wifi.go, lines 254-411): main, which fans  *)
(*     dhclient4 out over the matching links, and dhclient4 itself.        *)
(* Each machine has its own specification; the variables of the other      *)
(* machines stay at their initial values.                                  *)
(***************************************************************************)
EXTENDS Integers, Sequences, FiniteSets, TLC

\* ------------------------------------------------------------------------
\* Bounds of the model
\* ------------------------------------------------------------------------
\* Number of Connect calls made one after the other on the worker's interface.
MaxCalls == 2

Calls == 1..MaxCalls

\* Number of links netlink.LinkList returns.
NumLinks == 2

Links == 1..NumLinks

\* Failed exchanges in a row the model follows in one round of dhclient4.
MaxAttempts == 2

\* ------------------------------------------------------------------------
\* Values
\* ------------------------------------------------------------------------
Nil == "nil"
ErrTimeout == "Connection Timeout"
ErrExit == "exit status 1"
ErrArgs == "generateConfig needs 1, 2, or 3 args"
ErrPassphrase == "passphrase"
ErrWrite == "/tmp/wifi.conf"
NoConf == [kind |-> "none"]

\* Argument lists handed to Connect: [essid, pass, id], and the wrong arities.
\* "short" is a passphrase outside the 8..63 characters WPA accepts.
ArgLists ==
    { <<>>, <<"Office">>, <<"Office", "secret123">>, <<"Office", "short">>,
      <<"Office", "secret123", "alice">>,
      <<"Office", "secret123", "alice", "extra">> }

VARIABLES
    cpc,        \* cpc[k]: where call k of Connect stands
    file,       \* content of /tmp/wifi.conf
    c,          \* c[k]: the buffered channel of call k (a sequence, oldest first)
    cerr,       \* cerr[k]: the value call k received from c
    supplicant, \* supplicant[k]: the wpa_supplicant goroutine of call k
    lease,      \* lease[k]: the dhclient goroutine of call k
    timer,      \* timer[k]: the time.AfterFunc timer of call k
    result,     \* result[k]: what call k returned
    delivered,  \* delivered[k]: every value sent on c[k], in order (history)
    ifmatch,    \* the links whose name the selector *iface matches
    mpc,        \* where main stands
    next,       \* index of the link main's loop looks at next
    wg,         \* the sync.WaitGroup counter
    closed,     \* whether close(done) has run
    closer,     \* the goroutine that waits for wg and closes done
    nif,        \* main's count of values received from done
    logged,     \* number of log.Print(err) calls made by main's range loop
    summary,    \* the numbers main's final Printf wrote
    exited,     \* "running", or why the process ended
    wpa,        \* main's wpa_supplicant goroutine
    wpc,        \* wpc[n]: where the goroutine of link n stands
    needsRequest, \* dhclient4's needsRequest, per link
    i,          \* dhclient4's inner loop counter, per link
    packet,     \* dhclient4's packet, per link
    err,        \* dhclient4's err, per link
    ret,        \* the value the goroutine of link n sends on done
    waited,     \* seconds dhclient4 slept since HandlePacket last installed a lease
    held,       \* held[n]: what the last successful exchange of link n returned (history)
    text,       \* the iwlist output handed to parseIwlistOut, line by line
    ppc,        \* "build" while the scan text grows, "parsed" once it was parsed
    pres,       \* what parseIwlistOut did with text
    gargs,      \* the arguments handed to generateConfig
    gpc,        \* "call" before generateConfig ran, "done" after
    gres        \* what generateConfig returned

connectVars ==
    <<cpc, file, c, cerr, supplicant, lease, timer, result, delivered>>

dispatchVars ==
    <<ifmatch, mpc, next, wg, closed, closer, nif, logged, summary, exited, wpa,
      wpc, needsRequest, i, packet, err, ret, waited, held>>

pureVars == <<text, ppc, pres, gargs, gpc, gres>>

vars == <<connectVars, dispatchVars, pureVars>>

\* ------------------------------------------------------------------------
\* package wifi: generateConfig
\* ------------------------------------------------------------------------
\* passphrase.Run (pkg/wpa/passphrase, outside this repository's sources):
\* derives the PSK profile, and fails on a passphrase it does not accept.
passphraseRun(essid, pass) ==
    IF pass = "short"
    THEN [conf |-> NoConf, err |-> ErrPassphrase]
    ELSE [conf |-> [kind |-> "psk", ssid |-> essid, psk |-> <<"pbkdf2", pass, essid>>],
          err |-> Nil]

\* The enterprise profile with password and identity the other way round.
generateConfigSwapped(a) ==
    CASE Len(a) = 3 ->
           [conf |-> [kind |-> "eap", ssid |-> a[1], identity |-> a[2], password |-> a[3]],
            err |-> Nil]
      [] Len(a) = 2 ->
           LET r == passphraseRun(a[1], a[2])
           IN  IF r.err # Nil
               THEN [conf |-> NoConf, err |-> "essid, pass: " \o r.err]
               ELSE [conf |-> r.conf, err |-> Nil]
      [] Len(a) = 1 ->
           [conf |-> [kind |-> "open", ssid |-> a[1]], err |-> Nil]
      [] OTHER ->
           [conf |-> NoConf, err |-> ErrArgs]

\* fmt.Sprintf(eap, a[0], a[2], a[1]) fills ssid, identity and password.
generateConfig(a) ==
    CASE Len(a) = 3 ->
           [conf |-> [kind |-> "eap", ssid |-> a[1], identity |-> a[3], password |-> a[2]],
            err |-> Nil]
      [] Len(a) = 2 ->
           LET r == passphraseRun(a[1], a[2])
           IN  IF r.err # Nil
               THEN [conf |-> NoConf, err |-> "essid, pass: " \o r.err]
               ELSE [conf |-> r.conf, err |-> Nil]
      [] Len(a) = 1 ->
           [conf |-> [kind |-> "open", ssid |-> a[1]], err |-> Nil]
      [] OTHER ->
           [conf |-> NoConf, err |-> ErrArgs]

\* ------------------------------------------------------------------------
\* package wifi: WifiWorker.Connect
\* ------------------------------------------------------------------------
\* c := make(chan error, 1)
ChanCap == 1

CanSend(ch) == Len(ch) < ChanCap

\* The value Connect returns for the value it received from c.
ConnectReturnNil(e) == Nil

ConnectReturn(e) == IF e # Nil THEN "error: " \o e ELSE Nil

\* The body of the timer's function: c <- fmt.Errorf("Connection Timeout")
TimerFuncNoSend(ch) == ch

TimerFunc(ch) == Append(ch, ErrTimeout)

ConnectIdle ==
    /\ cpc = [k \in Calls |-> "idle"]
    /\ file = NoConf
    /\ c = [k \in Calls |-> <<>>]
    /\ cerr = [k \in Calls |-> Nil]
    /\ supplicant = [k \in Calls |-> "none"]
    /\ lease = [k \in Calls |-> "none"]
    /\ timer = [k \in Calls |-> "none"]
    /\ result = [k \in Calls |-> "none"]
    /\ delivered = [k \in Calls |-> <<>>]

NilPacket == [lifetime |-> -1]

DispatchIdle ==
    /\ mpc = "start"
    /\ next = 1
    /\ wg = 0
    /\ closed = FALSE
    /\ closer = "none"
    /\ nif = 0
    /\ logged = 0
    /\ summary = <<>>
    /\ exited = "running"
    /\ wpa = "none"
    /\ wpc = [n \in Links |-> "none"]
    /\ needsRequest = [n \in Links |-> TRUE]
    /\ i = [n \in Links |-> 0]
    /\ packet = [n \in Links |-> NilPacket]
    /\ err = [n \in Links |-> Nil]
    /\ ret = [n \in Links |-> Nil]
    /\ waited = [n \in Links |-> 0]
    /\ held = [n \in Links |-> NilPacket]

\* Nothing was parsed and generateConfig was not called.
NoParse == [panic |-> FALSE, res |-> <<>>]

ParseIdle == text = <<>> /\ ppc = "build" /\ pres = NoParse

ConfigIdle ==
    /\ gargs = <<>>
    /\ gpc = "call"
    /\ gres = [conf |-> NoConf, err |-> Nil]

PureIdle == ParseIdle /\ ConfigIdle

InitConnect == ConnectIdle /\ DispatchIdle /\ PureIdle /\ ifmatch = {}

\* Call k enters Connect with arguments a (calls are made one after the other):
\* generateConfig, whose error is returned at once, then
\* ioutil.WriteFile("/tmp/wifi.conf", conf, 0444), which may fail too.
ConnectCall(k) ==
    /\ cpc[k] = "idle"
    /\ \A j \in Calls : j < k => cpc[j] = "returned"
    /\ \E a \in ArgLists :
         LET g == generateConfig(a)
         IN  IF g.err # Nil
             THEN /\ cpc' = [cpc EXCEPT ![k] = "returned"]
                  /\ result' = [result EXCEPT ![k] = g.err]
                  /\ file' = file
             ELSE \/ /\ file' = g.conf
                     /\ cpc' = [cpc EXCEPT ![k] = "spawn"]
                     /\ result' = result
                  \/ /\ file' = file
                     /\ cpc' = [cpc EXCEPT ![k] = "returned"]
                     /\ result' = [result EXCEPT ![k] = ErrWrite]
    /\ UNCHANGED <<c, cerr, supplicant, lease, timer, delivered>>

\* make(chan error, 1); go wpa_supplicant; go dhclient; time.AfterFunc(30s)
ConnectSpawn(k) ==
    /\ cpc[k] = "spawn"
    /\ c' = [c EXCEPT ![k] = <<>>]
    /\ supplicant' = [supplicant EXCEPT ![k] = "running"]
    /\ lease' = [lease EXCEPT ![k] = "running"]
    /\ timer' = [timer EXCEPT ![k] = "armed"]
    /\ cpc' = [cpc EXCEPT ![k] = "recv"]
    /\ UNCHANGED <<file, cerr, result, delivered>>

\* cmd.Run() of wpa_supplicant returns, with whatever status: the goroutine
\* discards the value cmd.Run() returns and ends.
SupplicantExit(k) ==
    /\ supplicant[k] = "running"
    /\ supplicant' = [supplicant EXCEPT ![k] = "exited"]
    /\ UNCHANGED <<cpc, file, c, cerr, lease, timer, result, delivered>>

\* cmd.Run() of dhclient returns: nil, or an error.
LeaseExit(k) ==
    /\ lease[k] = "running"
    /\ \E st \in {"sendNil", "sendErr"} :
         lease' = [lease EXCEPT ![k] = st]
    /\ UNCHANGED <<cpc, file, c, cerr, supplicant, timer, result, delivered>>

\* c <- err  or  c <- nil, in the dhclient goroutine.
LeaseSend(k) ==
    /\ lease[k] \in {"sendNil", "sendErr"}
    /\ CanSend(c[k])
    /\ LET v == IF lease[k] = "sendErr" THEN ErrExit ELSE Nil
       IN  /\ c' = [c EXCEPT ![k] = Append(@, v)]
           /\ delivered' = [delivered EXCEPT ![k] = Append(@, v)]
    /\ lease' = [lease EXCEPT ![k] = "done"]
    /\ UNCHANGED <<cpc, file, cerr, supplicant, timer, result>>

\* The 30 seconds have passed: the runtime starts the timer's function.
TimerFire(k) ==
    /\ timer[k] = "armed"
    /\ timer' = [timer EXCEPT ![k] = "firing"]
    /\ UNCHANGED <<cpc, file, c, cerr, supplicant, lease, result, delivered>>

\* The timer's function sends on c.
TimerSend(k) ==
    /\ timer[k] = "firing"
    /\ CanSend(c[k])
    /\ c' = [c EXCEPT ![k] = TimerFunc(@)]
    /\ delivered' = [delivered EXCEPT ![k] = TimerFunc(@)]
    /\ timer' = [timer EXCEPT ![k] = "sent"]
    /\ UNCHANGED <<cpc, file, cerr, supplicant, lease, result>>

\* err = <-c
ConnectRecv(k) ==
    /\ cpc[k] = "recv"
    /\ c[k] # <<>>
    /\ cerr' = [cerr EXCEPT ![k] = Head(c[k])]
    /\ c' = [c EXCEPT ![k] = Tail(@)]
    /\ cpc' = [cpc EXCEPT ![k] = "stop"]
    /\ UNCHANGED <<file, supplicant, lease, timer, result, delivered>>

\* t.Stop(), which only stops a timer that has not fired; then return.
ConnectStopReturn(k) ==
    /\ cpc[k] = "stop"
    /\ timer' = [timer EXCEPT ![k] = IF @ = "armed" THEN "stopped" ELSE @]
    /\ result' = [result EXCEPT ![k] = ConnectReturn(cerr[k])]
    /\ cpc' = [cpc EXCEPT ![k] = "returned"]
    /\ UNCHANGED <<file, c, cerr, supplicant, lease, delivered>>

ConnectStep(k) ==
        \/ ConnectCall(k)
        \/ ConnectSpawn(k)
        \/ SupplicantExit(k)
        \/ LeaseExit(k)
        \/ LeaseSend(k)
        \/ TimerFire(k)
        \/ TimerSend(k)
        \/ ConnectRecv(k)
        \/ ConnectStopReturn(k)

NextConnect == (\E k \in Calls : ConnectStep(k)) /\ UNCHANGED <<dispatchVars, pureVars>>

SpecConnect == InitConnect /\ [][NextConnect]_vars

\* The Go runtime runs every runnable goroutine and fires every armed timer:
\* a step of Connect, of a timer or of a dhclient goroutine's send that stays
\* possible is eventually taken. Nothing makes the wpa_supplicant or dhclient
\* processes ever exit, and nothing makes a caller call Connect again.
ConnectFairStep ==
    /\ \E k \in Calls :
          \/ ConnectSpawn(k)
          \/ TimerFire(k)
          \/ TimerSend(k)
          \/ LeaseSend(k)
          \/ ConnectRecv(k)
          \/ ConnectStopReturn(k)
    /\ UNCHANGED <<dispatchVars, pureVars>>

FairConnect == SpecConnect /\ WF_vars(ConnectFairStep)

\* ------------------------------------------------------------------------
\* cmds/wifi: dhclient4
\* ------------------------------------------------------------------------
\* timeout = 15 s, slop = 10 s, retry = -1
timeout == 15

slop == 10

retry == -1

\* validLifetime, in seconds, of the leases a server may grant; 0 is the
\* infinite lease.
Lifetimes == {0, 12, 20}

ErrNet == {"timeout", "network"}
ErrNewV4 == "error: NewV4"
ErrHandle == "error handling pakcet"
ErrIfUp == "IfUp"

\* client.Solicit() and client.Renew(packet) of pkg/dhclient: a packet carrying
\* a lease, or an error and no packet.
ExchangeResults ==
    { [packet |-> [lifetime |-> t], err |-> Nil] : t \in Lifetimes }
        \cup { [packet |-> NilPacket, err |-> e] : e \in ErrNet }

\* The inner loop's condition: for i := 0; i > -1; i++
RetryLoopCondTwice(j) == j < 2

RetryLoopCond(j) == j > -1

\* packet.Leases()[0].ValidLifetime == 0
InfiniteLeaseNever(p) == FALSE

InfiniteLease(p) == p.lifetime = 0

\* time.Sleep(timeout - slop)
SleepFor == timeout - slop

Alive == exited = "running"

\* dhclient4 returns v: its locals are gone, v is the goroutine's value for done.
D4Return(n, v) ==
    /\ ret' = [ret EXCEPT ![n] = v]
    /\ wpc' = [wpc EXCEPT ![n] = "sendRes"]
    /\ needsRequest' = [needsRequest EXCEPT ![n] = TRUE]
    /\ i' = [i EXCEPT ![n] = 0]
    /\ packet' = [packet EXCEPT ![n] = NilPacket]
    /\ err' = [err EXCEPT ![n] = Nil]
    /\ held' = [held EXCEPT ![n] = NilPacket]

\* needsRequest = false, after an exchange that succeeded
AfterSuccessUnchanged(nr) == nr

AfterSuccess(nr) == FALSE

\* if err := dhclient.HandlePacket(iface, packet); err != nil { return ... }
HandleFailedIgnored(n) ==
    /\ wpc' = [wpc EXCEPT ![n] = "sleep"]
    /\ UNCHANGED <<ret, needsRequest, i, packet, err, held, waited>>

HandleFailed(n) == D4Return(n, ErrHandle) /\ waited' = waited

\* dhclient.NewV4(iface, timeout, retry), then the first pass of for { ... }
D4New(n) ==
    /\ Alive
    /\ wpc[n] = "newv4"
    /\ \/ /\ wpc' = [wpc EXCEPT ![n] = "exchange"]
          /\ needsRequest' = [needsRequest EXCEPT ![n] = TRUE]
          /\ i' = [i EXCEPT ![n] = 0]
          /\ ret' = ret
          /\ UNCHANGED <<packet, err, held>>
       \/ D4Return(n, ErrNewV4)
    /\ UNCHANGED <<connectVars, pureVars, ifmatch, mpc, next, wg, closed, closer, nif, logged,
                   summary, exited, wpa, waited>>

\* One pass of the inner loop: Solicit or Renew, then break on success, or
\* i++ and the loop's condition on failure. i is the loop's own variable:
\* break ends its life.
D4Exchange(n) ==
    /\ Alive
    /\ wpc[n] = "exchange"
    /\ \E r \in ExchangeResults :
         /\ packet' = [packet EXCEPT ![n] = r.packet]
         /\ err' = [err EXCEPT ![n] = r.err]
         /\ IF r.err # Nil
            THEN /\ i[n] < MaxAttempts
                 /\ i' = [i EXCEPT ![n] = @ + 1]
                 /\ wpc' = [wpc EXCEPT ![n] =
                               IF RetryLoopCond(i[n] + 1) THEN "exchange" ELSE "handle"]
                 /\ needsRequest' = needsRequest
                 /\ held' = held
            ELSE /\ needsRequest' = [needsRequest EXCEPT ![n] = AfterSuccess(needsRequest[n])]
                 /\ wpc' = [wpc EXCEPT ![n] = "handle"]
                 /\ i' = [i EXCEPT ![n] = 0]
                 /\ held' = [held EXCEPT ![n] = r.packet]
    /\ UNCHANGED <<connectVars, pureVars, ifmatch, mpc, next, wg, closed, closer, nif, logged,
                   summary, exited, wpa, ret, waited>>

\* dhclient.HandlePacket(iface, packet), whose error is returned; then the
\* infinite-lease test, which ends the function with nil.
D4Handle(n) ==
    /\ Alive
    /\ wpc[n] = "handle"
    /\ \/ HandleFailed(n)
       \/ /\ waited' = [waited EXCEPT ![n] = 0]
          /\ IF InfiniteLease(packet[n])
             THEN D4Return(n, Nil)
             ELSE /\ wpc' = [wpc EXCEPT ![n] = "sleep"]
                  /\ UNCHANGED <<ret, needsRequest, i, packet, err, held>>
    /\ UNCHANGED <<connectVars, pureVars, ifmatch, mpc, next, wg, closed, closer, nif, logged,
                   summary, exited, wpa>>

\* time.Sleep(timeout - slop), then the next pass of for { ... }
D4Sleep(n) ==
    /\ Alive
    /\ wpc[n] = "sleep"
    /\ waited' = [waited EXCEPT ![n] = @ + SleepFor]
    /\ i' = [i EXCEPT ![n] = 0]
    /\ wpc' = [wpc EXCEPT ![n] = "exchange"]
    /\ UNCHANGED <<connectVars, pureVars, held, ifmatch, mpc, next, wg, closed, closer, nif, logged,
                   summary, exited, wpa, needsRequest, packet, err, ret>>

\* ------------------------------------------------------------------------
\* cmds/wifi: main
\* ------------------------------------------------------------------------
\* ifRE.MatchString(i.Attrs().Name), the selector being the links it matches.
Matches(sel, n) == n \in sel

\* nif++ for a value received from done
CountOutcomeNilOnly(count, e) == IF e = Nil THEN count + 1 ELSE count

CountOutcome(count, e) == count + 1

\* wg.Wait() returns
WaitDoneAtOnce(counter) == TRUE

WaitDone(counter) == counter = 0

\* go wpa_supplicant; netlink.LinkList(), whose error is fatal.
MainStart ==
    /\ Alive
    /\ mpc = "start"
    /\ wpa' = "running"
    /\ \/ /\ mpc' = "loop"
          /\ exited' = exited
       \/ /\ mpc' = "exit"
          /\ exited' = "LinkList"
    /\ UNCHANGED <<connectVars, pureVars, held, ifmatch, next, wg, closed, closer, nif, logged,
                   summary, wpc, needsRequest, i, packet, err, ret, waited>>

\* One pass of for _, i := range ifnames: wg.Add(1) and go func for a link that
\* matches; after the last link, go func() { wg.Wait(); close(done) }.
MainLoop ==
    /\ Alive
    /\ mpc = "loop"
    /\ IF next <= NumLinks
       THEN /\ next' = next + 1
            /\ IF Matches(ifmatch, next)
               THEN /\ wg' = wg + 1
                    /\ wpc' = [wpc EXCEPT ![next] = "ifup"]
               ELSE UNCHANGED <<wg, wpc>>
            /\ UNCHANGED <<mpc, closer>>
       ELSE /\ closer' = "waiting"
            /\ mpc' = "range"
            /\ UNCHANGED <<next, wg, wpc>>
    /\ UNCHANGED <<connectVars, pureVars, held, ifmatch, closed, nif, logged, summary, exited, wpa,
                   needsRequest, i, packet, err, ret, waited>>

\* wg.Add(1) before done <- dhclient4(iface)
WgAddLeaseNone(counter) == counter

WgAddLease(counter) == counter + 1

\* dhclient.IfUp(ifname): its error is the goroutine's value for done;
\* otherwise wg.Add(1) and dhclient4(iface).
WorkerIfUp(n) ==
    /\ Alive
    /\ wpc[n] = "ifup"
    /\ \/ /\ ret' = [ret EXCEPT ![n] = ErrIfUp]
          /\ wpc' = [wpc EXCEPT ![n] = "sendErr"]
          /\ wg' = wg
       \/ /\ wg' = WgAddLease(wg)
          /\ wpc' = [wpc EXCEPT ![n] = "newv4"]
          /\ ret' = ret
    /\ UNCHANGED <<connectVars, pureVars, held, ifmatch, mpc, next, closed, closer, nif, logged,
                   summary, exited, wpa, needsRequest, i, packet, err, waited>>

\* done is unbuffered: a goroutine's send and main's receive in
\* for err := range done happen together; a send on the closed channel panics.
Deliver(n) ==
    /\ Alive
    /\ wpc[n] \in {"sendErr", "sendRes"}
    /\ IF closed
       THEN /\ exited' = "panic: send on closed channel"
            /\ UNCHANGED <<nif, logged, wpc>>
       ELSE /\ mpc = "range"
            /\ nif' = CountOutcome(nif, ret[n])
            /\ logged' = IF ret[n] # Nil THEN logged + 1 ELSE logged
            /\ wpc' = [wpc EXCEPT ![n] = IF @ = "sendErr" THEN "sentErr" ELSE "sentRes"]
            /\ exited' = exited
    /\ UNCHANGED <<connectVars, pureVars, held, ifmatch, mpc, next, wg, closed, closer, summary, wpa,
                   needsRequest, i, packet, err, ret, waited>>

\* The goroutine ends: wg.Done() after dhclient4's value was sent, and the
\* deferred wg.Done().
WorkerExit(n) ==
    /\ Alive
    /\ wpc[n] \in {"sentErr", "sentRes"}
    /\ wg' = IF wpc[n] = "sentRes" THEN wg - 2 ELSE wg - 1
    /\ wpc' = [wpc EXCEPT ![n] = "done"]
    /\ UNCHANGED <<connectVars, pureVars, held, ifmatch, mpc, next, closed, closer, nif, logged,
                   summary, exited, wpa, needsRequest, i, packet, err, ret, waited>>

\* wg.Wait() returned: close(done)
CloserClose ==
    /\ Alive
    /\ closer = "waiting"
    /\ WaitDone(wg)
    /\ closed' = TRUE
    /\ closer' = "done"
    /\ UNCHANGED <<connectVars, pureVars, held, ifmatch, mpc, next, wg, nif, logged, summary, exited,
                   wpa, wpc, needsRequest, i, packet, err, ret, waited>>

\* The range loop ends on the closed channel: log.Fatalf("No interfaces
\* match") when nif == 0, else Printf("%d dhclient attempts were sent", nif).
MainFinish ==
    /\ Alive
    /\ mpc = "range"
    /\ closed
    /\ mpc' = "exit"
    /\ IF nif = 0
       THEN /\ exited' = "No interfaces match"
            /\ summary' = summary
       ELSE /\ exited' = "returned"
            /\ summary' = <<nif>>
    /\ UNCHANGED <<connectVars, pureVars, held, ifmatch, next, wg, closed, closer, nif, logged, wpa,
                   wpc, needsRequest, i, packet, err, ret, waited>>

\* log.Fatalf in a goroutine other than main: os.Exit(1) ends the process,
\* and with it main, the closer and every link's goroutine and their memory.
ProcessKilled(why) ==
    /\ exited' = why
    /\ mpc' = "exit"
    /\ next' = 1
    /\ wg' = 0
    /\ closed' = FALSE
    /\ closer' = "killed"
    /\ nif' = 0
    /\ logged' = 0
    /\ summary' = <<>>
    /\ wpc' = [n \in Links |-> "killed"]
    /\ needsRequest' = [n \in Links |-> TRUE]
    /\ i' = [n \in Links |-> 0]
    /\ packet' = [n \in Links |-> NilPacket]
    /\ err' = [n \in Links |-> Nil]
    /\ ret' = [n \in Links |-> Nil]
    /\ waited' = [n \in Links |-> 0]
    /\ held' = [n \in Links |-> NilPacket]

\* wpa_supplicant's CombinedOutput returns: with an error, log.Fatalf ends the
\* process; without, the goroutine ends.
WpaExit ==
    /\ Alive
    /\ wpa = "running"
    /\ wpa' = "exited"
    /\ \/ UNCHANGED <<mpc, next, wg, closed, closer, nif, logged, summary, exited,
                      wpc, needsRequest, i, packet, err, ret, waited, held>>
       \/ ProcessKilled("wpa_supplicant")
    /\ UNCHANGED <<connectVars, pureVars, ifmatch>>

WorkerStep(n) ==
    \/ WorkerIfUp(n)
    \/ D4New(n)
    \/ D4Exchange(n)
    \/ D4Handle(n)
    \/ D4Sleep(n)
    \/ Deliver(n)
    \/ WorkerExit(n)

MainStep == MainStart \/ MainLoop \/ MainFinish

InitDispatch == ConnectIdle /\ DispatchIdle /\ PureIdle /\ ifmatch \in SUBSET Links

NextDispatch ==
    \/ MainStep
    \/ CloserClose
    \/ WpaExit
    \/ \E n \in Links : WorkerStep(n)

SpecDispatch == InitDispatch /\ [][NextDispatch]_vars

\* The Go runtime runs every runnable goroutine: main, the closer and each
\* link's goroutine take a step that stays possible. Nothing makes
\* wpa_supplicant ever exit.
FairDispatch ==
    /\ SpecDispatch
    /\ WF_vars(MainStep)
    /\ WF_vars(CloserClose)
    /\ \A n \in Links : WF_vars(WorkerStep(n))

\* main with a selector that matches the first link only: one dhclient4 runs.
InitLease == ConnectIdle /\ DispatchIdle /\ PureIdle /\ ifmatch = {1}

SpecLease == InitLease /\ [][NextDispatch]_vars

\* ------------------------------------------------------------------------
\* package wifi: parseIwlistOut
\* ------------------------------------------------------------------------
\* Cell blocks the model puts into one scan text.
MaxBlocks == 2

\* A line of iwlist output is <<label, value>>: the text before its first ":"
\* and the field strings.Split(line, ":")[1] yields, trimmed as the code trims.
CellLine == <<"Cell", "">>

EssidLine(s) == <<"ESSID", s>>

EncLine(v) == <<"Encryption key", v>>

Wpa2Line == <<"IE", "IEEE 802.11i/WPA2 Version 1">>

AuthLine(t) == <<"Authentication Suites", t>>

\* The regular expressions, and the lines each of them matches.
cellRE == "^\\s*Cell"

essidRE == "^\\s*ESSID.*"

encKeyOptRE == "^\\s*Encryption key:(on|off)$"

wpa2RE == "^\\s*IE: IEEE 802.11i/WPA2 Version 1$"

authSuitesRE == "^\\s*Authentication Suites .*$"

MatchLine(re, l) ==
    CASE re = cellRE -> l[1] = "Cell"
      [] re = essidRE -> l[1] = "ESSID"
      [] re = encKeyOptRE -> l[1] = "Encryption key" /\ l[2] \in {"on", "off"}
      [] re = wpa2RE -> l = Wpa2Line
      [] re = authSuitesRE -> l[1] = "Authentication Suites"

\* SecProto
NoEnc == "NoEnc"
WpaPsk == "WpaPsk"
WpaEap == "WpaEap"
NotSupportedProto == "NotSupportedProto"

WifiOption(essid, proto) == [Essid |-> essid, AuthSuite |-> proto]

\* regexp.FindAllIndex, FindAll, FindIndex and Find over a text of lines; a
\* position is a line number, FindIndex yields 0 and Find yields <<>> for nil.
FindAllIndex(re, o) ==
    SelectSeq([j \in 1..Len(o) |-> j], LAMBDA j : MatchLine(re, o[j]))

FindAll(re, o) == SelectSeq(o, LAMBDA l : MatchLine(re, l))

FindIndex(re, o) ==
    LET m == FindAllIndex(re, o) IN IF m = <<>> THEN 0 ELSE m[1]

Find(re, o) ==
    LET m == FindAll(re, o) IN IF m = <<>> THEN <<>> ELSE m[1]

\* strings.Split(string(line), ":"): the two fields of a line, and the single
\* empty field of the empty string.
Split(l) == IF l = <<>> THEN <<"">> ELSE l

\* A run-time panic (index out of range) ends parseIwlistOut without a result.
ParsePanic == [panic |-> TRUE, res |-> <<>>]

\* if knownEssids[essid] { continue }
KnownEssidNever(knownEssids, essid) == FALSE

KnownEssid(knownEssids, essid) == essid \in knownEssids

\* if encKeyOpt == "off"
EncOffNever(encKeyOpt) == FALSE

EncOff(encKeyOpt) == encKeyOpt = "off"

\* start, end := cells[i][0], len(o); if i != len(cells)-1 { end = cells[i+1][0] }
\* The search area is lines start .. end-1.
SearchEndOfText(cells, idx, n) == n + 1

SearchEnd(cells, idx, n) == IF idx # Len(cells) THEN cells[idx + 1] ELSE n + 1

\* authSearchArea := wpa2SearchArea[l[0]:]
AuthSearchAreaWhole(wpa2SearchArea, l) == wpa2SearchArea

AuthSearchArea(wpa2SearchArea, l) == SubSeq(wpa2SearchArea, l, Len(wpa2SearchArea))

\* switch authSuites
AuthSuiteOf(authSuites) ==
    CASE authSuites = "PSK" -> WpaPsk
      [] authSuites = "802.1x" -> WpaEap
      [] OTHER -> NotSupportedProto

\* The body of for i := 0; i < len(cells); i++, from cell idx on (idx counts
\* from 1), with res and knownEssids as the earlier passes left them.
RECURSIVE parseCells(_, _, _, _, _, _, _)
parseCells(o, cells, essids, encKeyOpts, idx, res, knownEssids) ==
    IF idx > Len(cells) THEN [panic |-> FALSE, res |-> res]
    ELSE IF idx > Len(essids) THEN ParsePanic
    ELSE
      LET essid == Split(essids[idx])[2]
          known == knownEssids \cup {essid}
      IN
      IF KnownEssid(knownEssids, essid)
      THEN parseCells(o, cells, essids, encKeyOpts, idx + 1, res, knownEssids)
      ELSE IF idx > Len(encKeyOpts) THEN ParsePanic
      ELSE
        LET encKeyOpt == Split(encKeyOpts[idx])[2] IN
        IF EncOff(encKeyOpt)
        THEN parseCells(o, cells, essids, encKeyOpts, idx + 1,
                        Append(res, WifiOption(essid, NoEnc)), known)
        ELSE
          LET start == cells[idx]
              end == SearchEnd(cells, idx, Len(o))
              wpa2SearchArea == SubSeq(o, start, end - 1)
              l == FindIndex(wpa2RE, wpa2SearchArea)
          IN
          IF l = 0
          THEN parseCells(o, cells, essids, encKeyOpts, idx + 1,
                          Append(res, WifiOption(essid, NotSupportedProto)), known)
          ELSE
            LET authSearchArea == AuthSearchArea(wpa2SearchArea, l)
                fields == Split(Find(authSuitesRE, authSearchArea))
            IN
            IF Len(fields) < 2 THEN ParsePanic
            ELSE parseCells(o, cells, essids, encKeyOpts, idx + 1,
                            Append(res, WifiOption(essid, AuthSuiteOf(fields[2]))),
                            known)

parseIwlistOut(o) ==
    LET cells == FindAllIndex(cellRE, o)
        essids == FindAll(essidRE, o)
        encKeyOpts == FindAll(encKeyOptRE, o)
    IN  IF cells = <<>> THEN [panic |-> FALSE, res |-> <<>>]
        ELSE parseCells(o, cells, essids, encKeyOpts, 1, <<>>, {})

\* The scan texts the model feeds to the parser: every cell block starts with
\* its Cell line; the ESSID line or the Encryption key line may be missing;
\* the WPA2 marker may be missing, and so may the Authentication Suites lines
\* before and after it.
Essids == {"Home", "Cafe"}

AuthTokens == {"PSK", "802.1x", "unknown (4)"}

BlockHeads ==
    { <<EssidLine(s), EncLine(v)>> : s \in Essids, v \in {"on", "off"} }
        \cup { <<EncLine("on")>>, <<EssidLine("Home")>> }

BlockSuites == { <<>> } \cup { <<AuthLine(t)>> : t \in AuthTokens }

BlockIEs ==
    { <<>>, <<AuthLine("PSK")>> }
        \cup { pre \o <<Wpa2Line>> \o post :
                 pre \in { <<>>, <<AuthLine("PSK")>> }, post \in BlockSuites }

CellBlocks == { <<CellLine>> \o h \o ie : h \in BlockHeads, ie \in BlockIEs }

InitParse == ConnectIdle /\ DispatchIdle /\ PureIdle /\ ifmatch = {}

\* iwlist reports one more cell.
AddBlock ==
    /\ ppc = "build"
    /\ Len(FindAllIndex(cellRE, text)) < MaxBlocks
    /\ \E b \in CellBlocks : text' = text \o b
    /\ UNCHANGED <<connectVars, dispatchVars, ppc, pres, gargs, gpc, gres>>

\* ScanWifi hands iwlist's output to parseIwlistOut.
Parse ==
    /\ ppc = "build"
    /\ ppc' = "parsed"
    /\ pres' = parseIwlistOut(text)
    /\ UNCHANGED <<connectVars, dispatchVars, text, gargs, gpc, gres>>

NextParse == AddBlock \/ Parse

SpecParse == InitParse /\ [][NextParse]_vars

\* ------------------------------------------------------------------------
\* package wifi: generateConfig called on its own
\* ------------------------------------------------------------------------
\* Longest argument list handed to generateConfig.
MaxArgs == 4

ConfigStrings == {"Office", "secret123", "short"}

ConfigArgs == UNION { [1..n -> ConfigStrings] : n \in 0..MaxArgs }

InitConfig ==
    /\ ConnectIdle /\ DispatchIdle /\ ParseIdle /\ ifmatch = {}
    /\ gargs \in ConfigArgs
    /\ gpc = "call"
    /\ gres = [conf |-> NoConf, err |-> Nil]

CallGenerateConfig ==
    /\ gpc = "call"
    /\ gpc' = "done"
    /\ gres' = generateConfig(gargs)
    /\ UNCHANGED <<connectVars, dispatchVars, text, ppc, pres, gargs>>

NextConfig == CallGenerateConfig

SpecConfig == InitConfig /\ [][NextConfig]_vars

\* ------------------------------------------------------------------------
\* Claims about Connect
\* ------------------------------------------------------------------------
\* Call k got as far as the race between dhclient and the timer.
Raced(k) == cpc[k] \in {"recv", "stop", "returned"} /\ timer[k] # "none"

\* C1: a call of Connect that races dhclient against the timer receives one
\* value from its channel, the first one delivered on it, and returns the
\* outcome of that value: nil when dhclient succeeded first, the wrapped
\* dhclient error when it failed first, the wrapped Connection Timeout when the
\* timer's function sent first. A call that returned a dhclient outcome never
\* returns or holds a Timeout as its received value.
C1_FirstDeliveredDecides ==
    \A k \in Calls :
        /\ (Raced(k) /\ cpc[k] \in {"stop", "returned"}) =>
              /\ delivered[k] # <<>>
              /\ cerr[k] = delivered[k][1]
        /\ (Raced(k) /\ cpc[k] = "returned") =>
              /\ result[k] \in {Nil, "error: exit status 1", "error: Connection Timeout"}
              /\ (delivered[k][1] = Nil) <=> (result[k] = Nil)
              /\ (delivered[k][1] = ErrExit) <=> (result[k] = "error: exit status 1")
              /\ (delivered[k][1] = ErrTimeout) <=> (result[k] = "error: Connection Timeout")
        /\ cpc[k] # "returned" => result[k] = "none"

\* C1 witness: dhclient delivered first, the timer's function delivered second
\* (its value stays in the buffer), and the call returned dhclient's outcome.
C1_Witness ==
    \E k \in Calls :
        /\ cpc[k] = "returned"
        /\ delivered[k] = <<Nil, ErrTimeout>>
        /\ result[k] = Nil

\* C2: every call that reached the race eventually returns, and a call that
\* returned while its dhclient had delivered nothing returned Connection
\* Timeout.
C2_ConnectReturns ==
    /\ \A k \in Calls : (cpc[k] = "recv") ~> (cpc[k] = "returned")
    /\ [](\A k \in Calls :
            (cpc[k] = "returned" /\ Raced(k) /\ lease[k] # "done")
                => result[k] = "error: Connection Timeout")

\* C2 witness: the call returned Connection Timeout with dhclient still running.
C2_Witness ==
    \E k \in Calls :
        /\ cpc[k] = "returned"
        /\ lease[k] = "running"
        /\ result[k] = "error: Connection Timeout"

\* C3 (as claimed): in every reachable state at most one dhclient is running on
\* the worker's interface, also after a call that timed out and the call that
\* follows it.
C3_OneLeaseTaskPerInterface ==
    Cardinality({k \in Calls : lease[k] = "running"}) <= 1

\* ------------------------------------------------------------------------
\* Claims about dhclient4
\* ------------------------------------------------------------------------
Returned(n) == wpc[n] \in {"sendRes", "sentRes", "done"}

\* C4: when the exchange that just succeeded returned a lease of lifetime 0,
\* the next step of dhclient4 is HandlePacket followed by its return (nil, or
\* HandlePacket's error): it neither sleeps nor issues another exchange, and
\* after its return it never does.
C4_InfiniteLeaseEnds ==
    [][\A n \in Links :
          /\ (wpc[n] = "handle" /\ packet[n].lifetime = 0) =>
                \/ wpc'[n] = "handle"
                \/ wpc'[n] = "killed"
                \/ wpc'[n] = "sendRes" /\ ret'[n] \in {Nil, ErrHandle}
          /\ Returned(n) => (Returned(n))' \/ wpc'[n] = "killed"
          /\ (ret'[n] = Nil /\ wpc'[n] = "sendRes" /\ wpc[n] # "sendRes") =>
                (wpc[n] = "handle" /\ packet[n].lifetime = 0)]_vars

\* C4 witness: dhclient4 returned nil, which it does for an infinite lease only.
C4_Witness == \E n \in Links : wpc[n] = "sendRes" /\ ret[n] = Nil

\* C5 (as claimed): the first renewal after a lease of lifetime T > slop was
\* installed is issued between T - slop and T seconds after it.
C5_RenewalWithinLifetime ==
    \A n \in Links :
        (wpc[n] = "exchange" /\ ~needsRequest[n] /\ i[n] = 0
            /\ packet[n].lifetime > slop)
        => /\ packet[n].lifetime - slop <= waited[n]
           /\ waited[n] <= packet[n].lifetime

\* C6: with retry = -1 (unlimited) dhclient4 leaves its retry loop on a
\* successful exchange only, keeps the last error while it retries, and never
\* returns an exchange error (what it sends on done is nil, or the error of
\* IfUp, NewV4 or HandlePacket); a retry count >= 0 would bound the failed
\* attempts in a row.
C6_RetryBound ==
    \A n \in Links :
        /\ retry >= 0 => i[n] <= retry
        /\ wpc[n] \in {"handle", "sleep"} => err[n] = Nil
        /\ (wpc[n] = "exchange" /\ i[n] > 0) => err[n] \in ErrNet
        /\ (retry < 0 /\ Returned(n)) => ret[n] \in {Nil, ErrIfUp, ErrNewV4, ErrHandle}

\* C6 witness: MaxAttempts exchanges in a row failed and dhclient4 is about to
\* issue the next one.
C6_Witness == \E n \in Links : wpc[n] = "exchange" /\ i[n] = MaxAttempts

\* ------------------------------------------------------------------------
\* Claims about main
\* ------------------------------------------------------------------------
Settled(n) == wpc[n] \in {"sleep", "sendErr", "sentErr", "sendRes", "sentRes", "done"}

\* C7 (as claimed): once every matching link has failed or has its first
\* lease installed, main eventually ends (with its report, or killed).
C7_CallerNotStarved ==
    (mpc = "range" /\ ifmatch # {} /\ \A n \in ifmatch : Settled(n))
        ~> (exited # "running")

\* C8: main ends with "No interfaces match" only when no link matched, and
\* then no goroutine was started for any link; it returns normally only when
\* some link matched.
C8_NoMatchIffNoneMatched ==
    /\ exited = "No interfaces match" =>
          (ifmatch = {} /\ \A n \in Links : wpc[n] = "none")
    /\ exited = "returned" => ifmatch # {}

\* C8 witness: no link matched and main reported it.
C8_Witness == exited = "No interfaces match" /\ ifmatch = {} /\ mpc = "exit"

NumFailed == Cardinality({n \in Links : wpc[n] = "done" /\ ret[n] # Nil})

C10_SupplicantExitHarmless ==
    [][(wpa = "running" /\ wpa' = "exited") =>
          (exited' = exited /\ wpc' = wpc /\ nif' = nif)]_vars

\* ------------------------------------------------------------------------
\* Claims about parseIwlistOut
\* ------------------------------------------------------------------------
NumBlocks(o) == Len(FindAllIndex(cellRE, o))

\* Cell block j of a text: from its Cell line up to the next Cell line, or to
\* the end of the text.
Block(o, j) ==
    LET cs == FindAllIndex(cellRE, o)
    IN  SubSeq(o, cs[j], IF j < Len(cs) THEN cs[j + 1] - 1 ELSE Len(o))

\* A block without WPA2 marker, or with an Authentication Suites line after it.
MarkerAnswered(b) ==
    LET m == FindIndex(wpa2RE, b)
    IN  m = 0 \/ \E k \in (m + 1)..Len(b) : MatchLine(authSuitesRE, b[k])

\* Every block holds exactly one ESSID line and one Encryption key line, and
\* an Authentication Suites line after its WPA2 marker when it has the marker.
WellFormed(o) ==
    \A j \in 1..NumBlocks(o) :
        LET b == Block(o, j)
        IN  /\ Len(FindAll(essidRE, b)) = 1
            /\ Len(FindAll(encKeyOptRE, b)) = 1
            /\ MarkerAnswered(b)

BlockEssid(b) == Find(essidRE, b)[2]

BlockEnc(b) == Find(encKeyOptRE, b)[2]

\* Block j is the first block of the text that carries its SSID.
IsFirst(o, j) ==
    \A k \in 1..(j - 1) : BlockEssid(Block(o, k)) # BlockEssid(Block(o, j))

FirstBlockOf(o, s) ==
    CHOOSE j \in 1..NumBlocks(o) : BlockEssid(Block(o, j)) = s /\ IsFirst(o, j)

\* The SSIDs of a text, each once, in the order of their first blocks.
FirstEssids(o) ==
    LET firsts == SelectSeq([j \in 1..NumBlocks(o) |-> j], LAMBDA j : IsFirst(o, j))
    IN  [k \in 1..Len(firsts) |-> BlockEssid(Block(o, firsts[k]))]

\* The record parseIwlistOut returned for SSID s.
RecordOf(s) == CHOOSE r \in { pres.res[k] : k \in 1..Len(pres.res) } : r.Essid = s

\* C11: for a text of well-formed cell blocks parseIwlistOut returns one record
\* per distinct SSID, in the order in which the SSIDs first occur, and the
\* security kind of each record is the one its first block alone is given: a
\* later block with the same SSID adds no record and changes none.
C11_FirstOccurrenceWins ==
    (ppc = "parsed" /\ WellFormed(text)) =>
        /\ ~pres.panic
        /\ [k \in 1..Len(pres.res) |-> pres.res[k].Essid] = FirstEssids(text)
        /\ \A k \in 1..Len(pres.res) :
               pres.res[k] =
                   parseIwlistOut(Block(text, FirstBlockOf(text, pres.res[k].Essid))).res[1]

\* "Home" open, then "Home" again with WPA2 and PSK: one open record.
C11_Witness ==
    /\ ppc = "parsed"
    /\ text = <<CellLine, EssidLine("Home"), EncLine("off"),
                CellLine, EssidLine("Home"), EncLine("on"), Wpa2Line, AuthLine("PSK")>>
    /\ pres = [panic |-> FALSE, res |-> <<WifiOption("Home", NoEnc)>>]

\* Every block holds exactly one ESSID line and one Encryption key line.
Aligned(o) ==
    \A j \in 1..NumBlocks(o) :
        /\ Len(FindAll(essidRE, Block(o, j))) = 1
        /\ Len(FindAll(encKeyOptRE, Block(o, j))) = 1

\* parseIwlistOut returned a list for a text whose lines pair up with its cells.
ParsedAligned == ppc = "parsed" /\ Aligned(text) /\ ~pres.panic

HasRecord(r) == \E k \in 1..Len(pres.res) : pres.res[k] = r

\* C12: a block that is the first of its SSID, whose encryption indicator is
\* on and whose own window (from its Cell line to the next Cell line or the
\* end of the text) holds no WPA2 marker, is recorded as NotSupportedProto,
\* whatever markers and Authentication Suites lines the other blocks hold.
C12_NoMarkerInWindowUnsupported ==
    ParsedAligned =>
        \A j \in 1..NumBlocks(text) :
            LET b == Block(text, j)
            IN  (IsFirst(text, j) /\ BlockEnc(b) = "on" /\ FindIndex(wpa2RE, b) = 0)
                    => /\ HasRecord(WifiOption(BlockEssid(b), NotSupportedProto))
                       /\ RecordOf(BlockEssid(b)).AuthSuite = NotSupportedProto

\* "Home" is encrypted without WPA2 marker, the next block has marker and PSK.
C12_Witness ==
    /\ ppc = "parsed"
    /\ text = <<CellLine, EssidLine("Home"), EncLine("on"), AuthLine("PSK"),
                CellLine, EssidLine("Cafe"), EncLine("on"), Wpa2Line, AuthLine("PSK")>>
    /\ pres = [panic |-> FALSE,
               res |-> <<WifiOption("Home", NotSupportedProto), WifiOption("Cafe", WpaPsk)>>]

\* The first Authentication Suites line of block b after line m.
FirstSuiteAfter(b, m) ==
    LET k == CHOOSE x \in (m + 1)..Len(b) :
                 MatchLine(authSuitesRE, b[x]) /\ \A y \in (m + 1)..(x - 1) : ~MatchLine(authSuitesRE, b[y])
    IN  b[k][2]

SecurityOfSuite(t) ==
    IF t = "PSK" THEN WpaPsk ELSE IF t = "802.1x" THEN WpaEap ELSE NotSupportedProto

\* C13: a block that is the first of its SSID, whose encryption indicator is
\* on and whose window holds the WPA2 marker, is classified from the first
\* Authentication Suites line after the marker inside the same window: PSK
\* gives WpaPsk, 802.1x gives WpaEap, any other token NotSupportedProto.
C13_SuiteAfterMarkerDecides ==
    ParsedAligned =>
        \A j \in 1..NumBlocks(text) :
            LET b == Block(text, j)
                m == FindIndex(wpa2RE, b)
            IN  (IsFirst(text, j) /\ BlockEnc(b) = "on" /\ m # 0)
                    => /\ MarkerAnswered(b)
                       /\ RecordOf(BlockEssid(b)) =
                              WifiOption(BlockEssid(b), SecurityOfSuite(FirstSuiteAfter(b, m)))

\* A PSK suite line before the marker and an 802.1x one after it: WpaEap.
C13_Witness ==
    /\ ppc = "parsed"
    /\ text = <<CellLine, EssidLine("Home"), EncLine("on"),
                AuthLine("PSK"), Wpa2Line, AuthLine("802.1x")>>
    /\ pres = [panic |-> FALSE, res |-> <<WifiOption("Home", WpaEap)>>]

\* C14: a block that is the first of its SSID and whose encryption indicator
\* is off is recorded as NoEnc, whatever else the text holds.
C14_IndicatorOffIsOpen ==
    ParsedAligned =>
        \A j \in 1..NumBlocks(text) :
            LET b == Block(text, j)
            IN  (IsFirst(text, j) /\ BlockEnc(b) = "off")
                    => RecordOf(BlockEssid(b)) = WifiOption(BlockEssid(b), NoEnc)

\* An open block that carries a WPA2 marker and a PSK suite line all the same.
C14_Witness ==
    /\ ppc = "parsed"
    /\ text = <<CellLine, EssidLine("Cafe"), EncLine("off"), Wpa2Line, AuthLine("PSK")>>
    /\ pres = [panic |-> FALSE, res |-> <<WifiOption("Cafe", NoEnc)>>]

\* C15: parseIwlistOut ends with a list for every text: it never panics,
\* whether ESSID or Encryption key lines are fewer than the cells or a WPA2
\* marker has no Authentication Suites line after it in its window.
C15_ParseNeverPanics == ppc = "parsed" => ~pres.panic

\* ------------------------------------------------------------------------
\* Claims about generateConfig
\* ------------------------------------------------------------------------
\* C16: one argument gives the open profile of that SSID; two arguments give
\* what passphrase.Run gives for them, its document or else an error and no
\* document; three arguments give the enterprise profile with the first as
\* SSID, the third as identity and the second as password; no argument or
\* more than three give the argument-count error and no document.
C16_ProfileByArity ==
    gpc = "done" =>
        CASE Len(gargs) = 1 ->
               gres = [conf |-> [kind |-> "open", ssid |-> gargs[1]], err |-> Nil]
          [] Len(gargs) = 2 ->
               LET r == passphraseRun(gargs[1], gargs[2])
               IN  IF r.err = Nil
                   THEN gres = [conf |-> r.conf, err |-> Nil]
                   ELSE gres.conf = NoConf /\ gres.err # Nil
          [] Len(gargs) = 3 ->
               /\ gres.err = Nil
               /\ gres.conf.kind = "eap"
               /\ gres.conf.ssid = gargs[1]
               /\ gres.conf.identity = gargs[3]
               /\ gres.conf.password = gargs[2]
          [] OTHER ->
               gres = [conf |-> NoConf, err |-> ErrArgs]

C16_Witness ==
    /\ gpc = "done"
    /\ gargs = <<"Office", "secret123", "short">>
    /\ gres.err = Nil
    /\ gres.conf.password = "secret123"

\* ------------------------------------------------------------------------
\* Claims about dhclient4's exchanges
\* ------------------------------------------------------------------------
\* C17: every Renew, a retry after a failed Renew included, is issued with the
\* lease the most recent successful exchange returned; a failed exchange
\* neither replaces nor clears the lease dhclient4 holds.
C17_RenewWithHeldLease ==
    \A n \in Links :
        (wpc[n] = "exchange" /\ ~needsRequest[n]) => packet[n] = held[n]

\* C18: the next exchange is a Solicit exactly when no exchange has succeeded
\* on the link yet: Solicit up to the first success, Renew ever after, also
\* after a Renew that failed.
C18_SolicitUntilFirstSuccess ==
    \A n \in Links :
        wpc[n] = "exchange" => (needsRequest[n] <=> held[n] = NilPacket)

\* A Renew failed and the retry that comes next is a Renew again.
C18_Witness ==
    \E n \in Links :
        /\ wpc[n] = "exchange"
        /\ i[n] > 0
        /\ err[n] # Nil
        /\ ~needsRequest[n]
        /\ held[n] # NilPacket

\* C19: HandlePacket is given what the successful exchange of the current
\* round returned: the retry loop is left on success only; the lease is
\* applied before the infinite-lease test and before any sleep, and the next
\* exchange comes after the sleep only; when HandlePacket fails dhclient4
\* returns that error and issues no further exchange.
C19_AppliesSuccessfulExchange ==
    [][\A n \in Links :
          /\ wpc'[n] = "handle" =>
                err'[n] = Nil /\ packet'[n] # NilPacket /\ packet'[n] = held'[n]
          /\ wpc'[n] = "sleep" => waited'[n] = 0 /\ packet'[n] = held'[n]
          /\ (wpc'[n] = "sleep" /\ wpc[n] # "sleep") => wpc[n] = "handle"
          /\ (wpc'[n] = "exchange" /\ wpc[n] # "exchange") =>
                wpc[n] \in {"newv4", "sleep"}
          /\ wpc[n] = "handle" => wpc'[n] \in {"handle", "sleep", "sendRes", "killed"}
          /\ (Returned(n) /\ ret[n] = ErrHandle) =>
                \/ (Returned(n))' /\ ret'[n] = ErrHandle
                \/ wpc'[n] = "killed"]_vars

\* A lease of 20 seconds was bound and applied, and dhclient4 sleeps.
C19_Witness ==
    \E n \in Links :
        /\ wpc[n] = "sleep"
        /\ packet[n] = held[n]
        /\ held[n] = [lifetime |-> 20]
        /\ waited[n] = 0

\* ------------------------------------------------------------------------
\* Claims about main's goroutines and the done channel
\* ------------------------------------------------------------------------
\* The goroutine of link n has sent its value on done.
Delivered(n) == wpc[n] \in {"sentErr", "sentRes", "done"}

\* C20: the goroutine of a matched link sends one value on done when it ends,
\* be it IfUp's error or dhclient4's error or nil, whatever the other links'
\* goroutines do; main counts every value sent once; done is closed only
\* after every goroutine started has sent and ended, and nothing is sent on
\* it after that; and while the process runs and main has not finished, main,
\* the closer or one of the goroutines can take a step.
C20_OneOutcomePerTask ==
    /\ exited # "panic: send on closed channel"
    /\ \A n \in Links : wpc[n] \notin {"none", "killed"} => n \in ifmatch
    /\ Alive => nif = Cardinality({n \in Links : Delivered(n)})
    /\ closed => \A n \in ifmatch : wpc[n] = "done"
    /\ exited = "returned" => nif = Cardinality(ifmatch)
    /\ (Alive /\ mpc # "exit") =>
           ENABLED (MainStep \/ CloserClose \/ \E n \in Links : WorkerStep(n))

\* Two links matched; IfUp failed on one, dhclient4 returned nil on the other,
\* and main counted both.
C20_Witness ==
    /\ exited = "returned"
    /\ nif = 2
    /\ \E m, n \in ifmatch : ret[m] = ErrIfUp /\ ret[n] = Nil /\ wpc[n] = "done"

====
